---- MODULE Spec2Model ----
(***************************************************************************)
(* Model of src/agent/sync.ts: the event dispatcher (processEvents), the   *)
(* last-write-wins handlers for people, the user's profile and rooms, the  *)
(* verification lookups (verifyNip05, verifyZapper) and the route scoring  *)
(* (addRoute).                                                             *)
(*                                                                         *)
(* Handlers are operators on a store record s; an action applies the whole *)
(* synchronous run of the code (one processEvents chunk, one callback).    *)
(* Numbers that the code keeps as floats are exact rationals <<n, d>> with *)
(* d > 0 in lowest terms; <<0, 0>> is NaN.                                 *)
(***************************************************************************)
EXTENDS Integers, Sequences, FiniteSets, Bags, TLC

VARIABLES
  people,      \* table of Identity rows, by pubkey
  profile,     \* the user's profile store (user.profile)
  rooms,       \* table of Room rows, by id
  routes,      \* table of Route rows, by id
  relays,      \* table of RelayEndpoint rows, by url
  userEvents,  \* the user's own events, as put
  pending,     \* bag of verification lookups in flight
  now,         \* the clock read by now()
  evidence,    \* history: per route id, the sum and number of the scores folded in
  handled,     \* history: the <<event id, handler>> pairs invoked so far
  last,        \* history: the operation that ran last, with its inputs
  used,        \* number of events submitted so far
  ticks,       \* number of clock steps so far
  calls        \* the processEvents calls asleep between two chunks, by call number

vars == <<people, profile, rooms, routes, relays, userEvents,
          pending, now, evidence, handled, last, used, ticks, calls>>

----------------------------------------------------------------------------
(* Bounds *)

\* events submitted to processEvents in one behaviour
MaxEvents == 2
\* clock steps, and direct calls of addRoute, in one behaviour of SpecRoute
MaxTicks == 1
MaxRouteCalls == 3

----------------------------------------------------------------------------
(* Time. now() and created_at are unix seconds. *)

Day == 86400
DecayDays == 30
DecayWindow == DecayDays * Day
TickStep == 15 * Day
Now0 == 100 * Day
T0 == 55 * Day
T1 == 85 * Day
T2 == 100 * Day

ChunkSize == 100

----------------------------------------------------------------------------
(* Rationals *)

NaN == <<0, 0>>

Abs(n) == IF n < 0 THEN 0 - n ELSE n

RECURSIVE GCD(_, _)
GCD(a, b) == IF b = 0 THEN a ELSE GCD(b, a % b)

Norm(n, d) ==
  IF d = 0 THEN NaN
  ELSE LET g == GCD(Abs(n), Abs(d))
           sg == IF d < 0 THEN 0 - 1 ELSE 1
       IN <<(sg * n) \div g, (sg * d) \div g>>

IsNaN(q) == q[2] = 0
RInt(n) == <<n, 1>>
RMul(a, b) == IF IsNaN(a) \/ IsNaN(b) THEN NaN ELSE Norm(a[1] * b[1], a[2] * b[2])
RAdd(a, b) == IF IsNaN(a) \/ IsNaN(b) THEN NaN ELSE Norm(a[1] * b[2] + b[1] * a[2], a[2] * b[2])
RSub(a, b) == IF IsNaN(a) \/ IsNaN(b) THEN NaN ELSE Norm(a[1] * b[2] - b[1] * a[2], a[2] * b[2])
RDiv(a, b) == IF IsNaN(a) \/ IsNaN(b) THEN NaN ELSE Norm(a[1] * b[2], a[2] * b[1])
\* q > 0 as JavaScript compares: false for NaN
RPos(q) == ~IsNaN(q) /\ q[1] > 0

----------------------------------------------------------------------------
(* JavaScript objects are functions from the keys present to values.       *)
(* JSON scalars are tagged: [str |-> s], [num |-> n], [bool |-> b].        *)

EmptyObj == [x \in {} |-> TRUE]
JStr(v) == [str |-> v]
JNum(v) == [num |-> v]
JBool(v) == [bool |-> v]

IsString(v) == "str" \in DOMAIN v

Undefined == [undefined |-> TRUE]

\* obj[k], undefined when the key is absent
Prop(obj, k) == IF k \in DOMAIN obj THEN obj[k] ELSE Undefined

\* JavaScript truthiness of a JSON scalar or undefined
Truthy(v) ==
  IF "str" \in DOMAIN v THEN v.str # ""
  ELSE IF "num" \in DOMAIN v THEN v.num # 0
  ELSE IF "bool" \in DOMAIN v THEN v.bool
  ELSE FALSE

\* a || b
OrElse(a, b) == IF Truthy(a) THEN a ELSE b

\* {...a, ...b}
Spread(a, b) == [k \in DOMAIN a \cup DOMAIN b |-> IF k \in DOMAIN b THEN b[k] ELSE a[k]]

\* ramda pick(keys, obj)
Pick(keys, obj) == [k \in keys \cap DOMAIN obj |-> obj[k]]

\* ramda uniq on a list: the first occurrence of each element is kept
RECURSIVE Uniq(_)
Uniq(sq) ==
  IF sq = <<>> THEN <<>>
  ELSE LET front == Uniq(SubSeq(sq, 1, Len(sq) - 1))
           x == sq[Len(sq)]
       IN IF \E i \in 1..Len(front) : front[i] = x THEN front ELSE Append(front, x)

Range(sq) == {sq[i] : i \in 1..Len(sq)}

Max(a, b) == IF a >= b THEN a ELSE b

----------------------------------------------------------------------------
(* Tables: get / put / patch by key.  A table is a function from the keys  *)
(* stored to rows; patch merges the given fields into the row.             *)

TableGet(t, k) == IF k \in DOMAIN t THEN t[k] ELSE EmptyObj

TablePut(t, k, row) == [x \in DOMAIN t \cup {k} |-> IF x = k THEN row ELSE t[x]]

TablePatch(t, k, data) == TablePut(t, k, Spread(TableGet(t, k), data))

\* e.created_at < row?.[field], false when the row or the field is undefined
Older(created_at, row, field) == field \in DOMAIN row /\ created_at < row[field]

----------------------------------------------------------------------------
(* The environment: the local user, relay urls, strings.                   *)

UserPubkey == "pk1"
OtherPubkey == "pk2"

\* src/util/nostr isRelay: the url looks like a relay endpoint
isRelay(url) ==
  url \in {"wss://relay.example", "wss://relay.example/", "wss://other.example",
           "wss://relay.example/npub1x"}

\* src/util/nostr isShareableRelay: a relay url that may be passed on to others
isShareableRelay(url) ==
  url \in {"wss://relay.example", "wss://relay.example/", "wss://other.example"}

\* src/util/nostr normalizeRelayUrl: the canonical form of a url
normalizeRelayUrl(url) ==
  CASE url = "wss://relay.example/" -> "wss://relay.example"
    [] OTHER -> url

\* hash([pubkey, url, mode].join("")).toString(): pubkeys have one length and
\* the hash is taken to be free of collisions, so the id stands for the triple
RouteId(pubkey, url, mode) == pubkey \o url \o mode

\* String.prototype.toLowerCase
toLowerCase(str) ==
  CASE str = "Bob@Pay.example" -> "bob@pay.example"
    [] OTHER -> str

startsWithLnurl1(address) == address \in {"lnurl1good", "lnurl1bad"}

includesAt(address) == address \in {"bob@pay.example", "@pay.example"}

\* address.split("@")
splitAt(address) ==
  CASE address = "bob@pay.example" -> <<"bob", "pay.example">>
    [] address = "@pay.example" -> <<"", "pay.example">>
    [] OTHER -> <<address>>

NoUrl == ""

\* tryFunc(() => bech32ToHex(address)): undefined when the decoding throws
bech32ToHex(address) ==
  CASE address = "lnurl1good" -> "https://pay.example/lnurlp/bob"
    [] OTHER -> NoUrl

\* hexToBech32("lnurl", url)
hexToBech32(url) == "lnurl1:" \o url

----------------------------------------------------------------------------
(* JSON.parse.  A parsed object is the list of its entries, in key order.  *)

ParseFail == [t |-> "fail"]
ParseNull == [t |-> "null"]
ParseObj(entries) == [t |-> "obj", entries |-> entries]

Json_name == "{\"name\":\"a\",\"lud16\":\"Bob@Pay.example\"}"
Json_alias == "{\"nip05\":\"a@x.example\"}"
Json_about == "{\"about\":\"b\",\"nip05\":\"b@x.example\"}"
Json_nick == "{\"name\":\"c\"}"
Json_badlud == "{\"nip05\":\"a@x.example\",\"lud16\":1}"
Json_relays == "{\"wss://relay.example/\":{\"write\":true,\"read\":\"!\"}}"
Json_room == "{\"name\":\"R\",\"about\":\"x\",\"secret\":\"s\"}"
Json_rename == "{\"name\":\"S\"}"
Json_relays_b == "{\"wss://other.example\":{\"write\":true,\"read\":true}}"
Json_oldname == "{\"name\":\"Q\",\"picture\":\"p\"}"
Json_noname == "{\"about\":\"y\"}"

JSONparse(text) ==
  CASE text = Json_name ->
         ParseObj(<< <<"name", JStr("a")>>, <<"lud16", JStr("Bob@Pay.example")>> >>)
    [] text = Json_alias -> ParseObj(<< <<"nip05", JStr("a@x.example")>> >>)
    [] text = Json_about ->
         ParseObj(<< <<"about", JStr("b")>>, <<"nip05", JStr("b@x.example")>> >>)
    [] text = Json_nick -> ParseObj(<< <<"name", JStr("c")>> >>)
    [] text = Json_badlud ->
         ParseObj(<< <<"nip05", JStr("a@x.example")>>, <<"lud16", JNum(1)>> >>)
    [] text = Json_relays ->
         ParseObj(<< <<"wss://relay.example/",
                       [write |-> JBool(TRUE), read |-> JStr("!")]>> >>)
    [] text = Json_room ->
         ParseObj(<< <<"name", JStr("R")>>, <<"about", JStr("x")>>,
                     <<"secret", JStr("s")>> >>)
    [] text = Json_rename -> ParseObj(<< <<"name", JStr("S")>> >>)
    [] text = Json_relays_b ->
         ParseObj(<< <<"wss://other.example",
                       [write |-> JBool(TRUE), read |-> JBool(TRUE)]>> >>)
    [] text = Json_oldname -> ParseObj(<< <<"name", JStr("Q")>>, <<"picture", JStr("p")>> >>)
    [] text = Json_noname -> ParseObj(<< <<"about", JStr("y")>> >>)
    [] text = "null" -> ParseNull
    [] OTHER -> ParseFail

\* the object of a list of entries
ObjOf(entries) ==
  [k \in {entries[i][1] : i \in 1..Len(entries)} |->
     (CHOOSE i \in 1..Len(entries) :
        entries[i][1] = k /\ \A j \in (i + 1)..Len(entries) : entries[j][1] # k)
  ]

ObjValue(entries) ==
  LET ix == ObjOf(entries) IN [k \in DOMAIN ix |-> entries[ix[k]][2]]

----------------------------------------------------------------------------
(* The store a run of the code works on: the tables, the lookups in        *)
(* flight, and the history of the run (events: the events dispatched;      *)
(* trace: the handlers invoked, in order; launched: the lookups started;   *)
(* threw: an exception escaped).                                           *)

Store ==
  [people |-> people, profile |-> profile, rooms |-> rooms, routes |-> routes,
   relays |-> relays, userEvents |-> userEvents, pending |-> pending,
   evidence |-> evidence,
   events |-> <<>>, trace |-> <<>>, launched |-> <<>>, threw |-> FALSE]

EmptyStore ==
  [people |-> EmptyObj,
   profile |-> [pubkey |-> UserPubkey, relays |-> <<>>, mutes |-> <<>>, petnames |-> <<>>],
   rooms |-> EmptyObj, routes |-> EmptyObj, relays |-> EmptyObj,
   userEvents |-> {}, pending |-> EmptyBag, evidence |-> EmptyObj,
   events |-> <<>>, trace |-> <<>>, launched |-> <<>>, threw |-> FALSE]

Raise(s) == [s EXCEPT !.threw = TRUE]

----------------------------------------------------------------------------
(* People *)

\* the row is put in place of the stored one, not merged onto it
updatePersonPut(s, pubkey, data) ==
  [s EXCEPT !.people = TablePut(@, pubkey, Spread([pubkey |-> pubkey, updated_at |-> now], data)),
            !.profile = IF pubkey = UserPubkey THEN Spread(@, data) ELSE @]

\* lines 51-58
updatePerson(s, pubkey, data) ==
  LET patched == TablePatch(s.people, pubkey,
                            Spread([pubkey |-> pubkey, updated_at |-> now], data))
  IN [s EXCEPT !.people = patched,
               !.profile = IF pubkey = UserPubkey THEN Spread(@, data) ELSE @]

Lookup(kind, pubkey, arg) == [lookup |-> kind, pubkey |-> pubkey, arg |-> arg]

\* history: a lookup was started by the handler invocation the trace ends with
Launched(s, lookup) == Append(s.launched, [lookup |-> lookup, at |-> Len(s.trace)])

\* nip05.queryProfile(as) is started; its callback runs later (Nip05Resolved)
verifyNip05(s, pubkey, as) ==
  [s EXCEPT !.pending = @ (+) SetToBag({Lookup("nip05", pubkey, as)}),
            !.launched = Launched(s, Lookup("nip05", pubkey, as))]

\* lines 82-90: the url of a lud06 LNURL or of a lud16 address
zapperUrl(address) ==
  IF startsWithLnurl1(address) THEN bech32ToHex(address)
  ELSE IF includesAt(address)
    THEN LET parts == splitAt(address)
             name == parts[1]
             domain == IF Len(parts) >= 2 THEN parts[2] ELSE ""
         IN IF domain # "" /\ name # ""
              THEN "https://" \o domain \o "/.well-known/lnurlp/" \o name
              ELSE NoUrl
  ELSE NoUrl

\* verifyZapper up to its first await: the fetch is started when there is a url
verifyZapper(s, pubkey, address) ==
  LET url == zapperUrl(address)
  IN IF url = NoUrl THEN s
     ELSE [s EXCEPT !.pending = @ (+) SetToBag({Lookup("zapper", pubkey, url)}),
                    !.launched = Launched(s, Lookup("zapper", pubkey, url))]

\* the guard without its test: every event is taken as new
kind0StaleNever(e, person) == FALSE

\* e.created_at <= person?.kind0_updated_at
kind0StaleOrEqual(e, person) ==
  "kind0_updated_at" \in DOMAIN person /\ e.created_at <= person.kind0_updated_at

\* e.created_at < person?.kind0_updated_at
kind0Stale(e, person) == Older(e.created_at, person, "kind0_updated_at")

\* addHandler(0, ...): everything runs inside tryJson, which swallows what is thrown
handleKind0(s, e) ==
  LET parsed == JSONparse(e.content)
      person == TableGet(s.people, e.pubkey)
  IN IF parsed.t = "fail" THEN s
     ELSE IF kind0Stale(e, person) THEN s
     ELSE IF parsed.t = "null" THEN s   \* kind0.nip05 of null throws
     ELSE
       LET kind0 == ObjValue(parsed.entries)
           nip05 == Prop(kind0, "nip05")
           s1 == IF Truthy(nip05) THEN verifyNip05(s, e.pubkey, nip05.str) ELSE s
           address == OrElse(Prop(kind0, "lud16"), Prop(kind0, "lud06"))
       IN IF Truthy(address) /\ ~IsString(address)
            THEN s1   \* address.toLowerCase is not a function: thrown, swallowed
            ELSE
              LET s2 == IF Truthy(address)
                          THEN verifyZapper(s1, e.pubkey, toLowerCase(address.str))
                          ELSE s1
              IN updatePerson(s2, e.pubkey,
                   [kind0 |-> Spread(IF "kind0" \in DOMAIN person THEN person.kind0
                                     ELSE EmptyObj, kind0),
                    kind0_updated_at |-> e.created_at])

\* the "p" tags are added to the petnames stored, not put in their place
petnamesAdded(e, person) ==
  (IF "petnames" \in DOMAIN person THEN person.petnames ELSE <<>>)
    \o SelectSeq(e.tags, LAMBDA t : Len(t) > 0 /\ t[1] = "p")

\* e.tags.filter(t => t[0] === "p")
petnamesOf(e, person) == SelectSeq(e.tags, LAMBDA t : Len(t) > 0 /\ t[1] = "p")

\* e.created_at < person?.petnames_updated_at
petnamesStale(e, person) == Older(e.created_at, person, "petnames_updated_at")

\* addHandler(3, ...) petnames; e.tags.filter throws when the event has no tags
handlePetnames(s, e) ==
  LET person == TableGet(s.people, e.pubkey)
  IN IF petnamesStale(e, person) THEN s
     ELSE IF "tags" \notin DOMAIN e THEN Raise(s)
     ELSE updatePerson(s, e.pubkey,
            [petnames_updated_at |-> e.created_at,
             petnames |-> petnamesOf(e, person)])

----------------------------------------------------------------------------
(* Routes *)

Weight_nip05 == <<1, 1>>
Weight_kind10002 == <<1, 1>>
Weight_kind3 == <<4, 5>>
Weight_kind2 == <<1, 2>>

\* undefined (NaN in the product) for a type the table does not list
getWeight(type) ==
  CASE type = "nip05" -> Weight_nip05
    [] type = "kind:10002" -> Weight_kind10002
    [] type = "kind:3" -> Weight_kind3
    [] type = "kind:2" -> Weight_kind2
    [] OTHER -> NaN

\* getWeight(type) * (1 - (now() - created_at) / timedelta(30, "days"))
evidenceScore(type, created_at) ==
  RMul(getWeight(type),
       RSub(RInt(1), RDiv(RInt(now - created_at), RInt(DecayWindow))))

\* score >= 0 in place of score > 0
scoreCountsFromZero(score) == ~IsNaN(score) /\ score[1] >= 0

\* if (score > 0)
scoreCounts(score) == RPos(score)

routeDefaults(id, pubkey, url, mode) ==
  [id |-> id, pubkey |-> pubkey, url |-> url, mode |-> mode,
   score |-> RInt(0), count |-> 0, types |-> <<>>]

\* evidence of a type the route already has is not counted again
foldRouteOncePerType(route, score, type, created_at) ==
  IF \E i \in 1..Len(route.types) : route.types[i] = type THEN route
  ELSE Spread(route,
         [count |-> route.count + 1,
          score |-> RDiv(RAdd(RMul(route.score, RInt(route.count)), score),
                         RInt(route.count + 1)),
          types |-> Append(route.types, type),
          last_seen |-> Max(created_at,
                            IF "last_seen" \in DOMAIN route THEN route.last_seen ELSE 0)])

\* the new score is the mean of the old score and the new evidence
foldRouteHalved(route, score, type, created_at) ==
  Spread(route,
    [count |-> route.count + 1,
     score |-> RDiv(RAdd(route.score, score), RInt(2)),
     types |-> Uniq(Append(route.types, type)),
     last_seen |-> Max(created_at,
                       IF "last_seen" \in DOMAIN route THEN route.last_seen ELSE 0)])

\* lines 294-308: the row put for a route when the score counts
foldRoute(route, score, type, created_at) ==
  LET newTotalScore == RAdd(RMul(route.score, RInt(route.count)), score)
      newCount == route.count + 1
  IN Spread(route,
       [count |-> newCount,
        score |-> RDiv(newTotalScore, RInt(newCount)),
        types |-> Uniq(Append(route.types, type)),
        last_seen |-> Max(created_at,
                          IF "last_seen" \in DOMAIN route THEN route.last_seen ELSE 0)])

\* history: the scores > 0 computed for a route id, as their sum and number
NoteEvidence(ev, id, score) ==
  IF ~RPos(score) THEN ev
  ELSE LET old == IF id \in DOMAIN ev THEN ev[id] ELSE [sum |-> RInt(0), n |-> 0]
       IN TablePut(ev, id, [sum |-> RAdd(old.sum, score), n |-> old.n + 1])

\* no url is turned away
rejectsUrlNever(rawUrl) == FALSE

\* if (!isShareableRelay(rawUrl)) return
rejectsUrl(rawUrl) == ~isShareableRelay(rawUrl)

addRoute(s, pubkey, rawUrl, type, mode, created_at) ==
  IF rejectsUrl(rawUrl) THEN s
  ELSE
    LET url == normalizeRelayUrl(rawUrl)
        id == RouteId(pubkey, url, mode)
        score == evidenceScore(type, created_at)
        route == IF id \in DOMAIN s.routes THEN s.routes[id]
                 ELSE routeDefaults(id, pubkey, url, mode)
        s1 == [s EXCEPT !.evidence = NoteEvidence(@, id, score)]
    IN IF scoreCounts(score)
         THEN [s1 EXCEPT !.relays = TablePatch(@, route.url, [url |-> route.url]),
                         !.routes = TablePut(@, id, foldRoute(route, score, type, created_at))]
         ELSE s1

\* the url and the mode of a relay tag; a missing element is undefined
tagUrl(t) == IF Len(t) >= 2 THEN t[2] ELSE "undefined"
tagMode(t) == IF Len(t) >= 3 THEN t[3] ELSE ""

\* addHandler(2, ...) routes
handleRoutes2(s, e) ==
  addRoute(addRoute(s, e.pubkey, e.content, "kind:2", "read", e.created_at),
           e.pubkey, e.content, "kind:2", "write", e.created_at)

\* [false, "!"].includes(v)
negated(v) == v = JBool(FALSE) \/ v = JStr("!")

RECURSIVE routes3Each(_, _, _)
routes3Each(s, e, entries) ==
  IF entries = <<>> THEN s
  ELSE LET url == entries[1][1]
           conditions == entries[1][2]
           s1 == IF ~negated(Prop(conditions, "write"))
                   THEN addRoute(s, e.pubkey, url, "kind:3", "write", e.created_at)
                   ELSE s
           s2 == IF ~negated(Prop(conditions, "read"))
                   THEN addRoute(s1, e.pubkey, url, "kind:3", "read", e.created_at)
                   ELSE s1
       IN routes3Each(s2, e, Tail(entries))

\* addHandler(3, ...) routes, inside tryJson
handleRoutes3(s, e) ==
  LET parsed == JSONparse(e.content)
  IN IF parsed.t # "obj" THEN s ELSE routes3Each(s, e, parsed.entries)

RECURSIVE routes10002Each(_, _, _)
routes10002Each(s, e, tags) ==
  IF tags = <<>> THEN s
  ELSE LET url == tagUrl(tags[1])
           mode == tagMode(tags[1])
           s1 == IF mode # ""
                   THEN addRoute(s, e.pubkey, url, "kind:10002", mode, e.created_at)
                   ELSE addRoute(addRoute(s, e.pubkey, url, "kind:10002", "read", e.created_at),
                                 e.pubkey, url, "kind:10002", "write", e.created_at)
       IN routes10002Each(s1, e, Tail(tags))

\* addHandler(10002, ...) routes; e.tags.forEach throws when the event has no tags
handleRoutes10002(s, e) ==
  IF "tags" \notin DOMAIN e THEN Raise(s) ELSE routes10002Each(s, e, e.tags)

----------------------------------------------------------------------------
(* User profile *)

Value(v) == [t |-> "value", v |-> v]
NoValue == [t |-> "undefined"]
Thrown == [t |-> "throw"]

\* src/util/nostr Tags.from(e).type(type).all()
tagsOfType(e, type) == SelectSeq(e.tags, LAMBDA t : Len(t) > 0 /\ t[1] = type)

\* src/agent/relays uniqByUrl: the first relay of each url is kept
RECURSIVE uniqByUrl(_)
uniqByUrl(rs) ==
  IF rs = <<>> THEN <<>>
  ELSE LET front == uniqByUrl(SubSeq(rs, 1, Len(rs) - 1))
           r == rs[Len(rs)]
       IN IF \E i \in 1..Len(front) : front[i].url = r.url THEN front ELSE Append(front, r)

\* the guard without its test: every event of the user is taken as new
profileStaleNever(e, p, updated_at_key) == FALSE

\* e.created_at < profile?.[updated_at_key]
profileStale(e, p, updated_at_key) == Older(e.created_at, p, updated_at_key)

\* profileHandler(key, getValue): value is getValue(e, $p), computed in the update
profileHandler(s, e, key, value) ==
  LET updated_at_key == key \o "_updated_at"
  IN IF e.pubkey # s.profile.pubkey THEN s
     ELSE IF profileStale(e, s.profile, updated_at_key) THEN s
     ELSE IF value.t = "throw" THEN Raise(s)
     ELSE IF value.t = "undefined" THEN s
     ELSE [s EXCEPT !.profile =
             Spread(@, [k \in {key, updated_at_key} |->
                          IF k = key THEN value.v ELSE e.created_at])]

\* addHandler(2, profileHandler("relays", ...))
relays2(e, p) == Value(uniqByUrl(Append(p.relays, [url |-> e.content])))

relay3Of(entry) ==
  [url |-> normalizeRelayUrl(entry[1]),
   write |-> ~negated(Prop(entry[2], "write")),
   read |-> ~negated(Prop(entry[2], "read"))]

\* Array.prototype.map
MapSeq(sq, F(_)) == [i \in 1..Len(sq) |-> F(sq[i])]

\* addHandler(3, profileHandler("relays", ...)): undefined when tryJson swallows
relays3(e, p) ==
  LET parsed == JSONparse(e.content)
  IN IF parsed.t # "obj" THEN NoValue
     ELSE Value(SelectSeq(MapSeq(parsed.entries, relay3Of), LAMBDA r : isRelay(r.url)))

\* addHandler(10000, profileHandler("mutes", ...))
mutes10000(e, p) == IF "tags" \in DOMAIN e THEN Value(e.tags) ELSE NoValue

relay10001Of(t) ==
  [url |-> IF Len(t) >= 1 THEN t[1] ELSE "undefined",
   read |-> ~(Len(t) >= 2 /\ t[2] = "!"),
   write |-> ~(Len(t) >= 3 /\ t[3] = "!")]

\* addHandler(10001, profileHandler("relays", ...)); e.tags.map throws without tags
relays10001(e, p) ==
  IF "tags" \notin DOMAIN e THEN Thrown ELSE Value(MapSeq(e.tags, relay10001Of))

relay10002Of(t) ==
  [url |-> tagUrl(t),
   read |-> (IF tagMode(t) # "" THEN tagMode(t) ELSE "read") = "read",
   write |-> (IF tagMode(t) # "" THEN tagMode(t) ELSE "write") = "write"]

\* addHandler(10002, profileHandler("relays", ...))
relays10002(e, p) == Value(MapSeq(tagsOfType(e, "r"), relay10002Of))

----------------------------------------------------------------------------
(* Rooms *)

\* src/util/nostr roomAttrs
roomAttrs == {"name", "about", "picture"}

\* tryJson(() => pick(roomAttrs, JSON.parse(e.content)))
roomContent(e) ==
  LET parsed == JSONparse(e.content)
  IN IF parsed.t # "obj" THEN EmptyObj ELSE Pick(roomAttrs, ObjValue(parsed.entries))

roomPatch(s, e, roomId) ==
  LET room == TableGet(s.rooms, roomId)
      content == roomContent(e)
  IN IF Older(e.created_at, room, "updated_at") THEN s
     ELSE IF ~Truthy(Prop(content, "name")) THEN s
     ELSE [s EXCEPT !.rooms =
             TablePatch(@, roomId,
               Spread([id |-> roomId, pubkey |-> e.pubkey, updated_at |-> e.created_at],
                      content))]

\* addHandler(40, ...)
handleRoom40(s, e) == roomPatch(s, e, e.id)

\* addHandler(41, ...): the room is the first "e" tag's value
handleRoom41(s, e) ==
  LET es == tagsOfType(e, "e")
      roomId == IF es = <<>> THEN "" ELSE tagUrl(es[1])
  IN IF roomId = "" \/ roomId = "undefined" THEN s ELSE roomPatch(s, e, roomId)

----------------------------------------------------------------------------
(* The dispatcher *)

\* the addHandler calls of the module, in the order they run
Registrations ==
  << <<0, "kind0">>, <<3, "petnames">>, <<2, "relays2">>, <<3, "relays3">>,
     <<10000, "mutes10000">>, <<10001, "relays10001">>, <<10002, "relays10002">>,
     <<40, "room40">>, <<41, "room41">>, <<2, "routes2">>, <<3, "routes3">>,
     <<10002, "routes10002">> >>

\* handlers[kind] || []
handlersOf(kind) ==
  LET regs == SelectSeq(Registrations, LAMBDA r : r[1] = kind)
  IN [i \in 1..Len(regs) |-> regs[i][2]]

\* handler(event)
callHandler(name, s, e) ==
  CASE name = "kind0" -> handleKind0(s, e)
    [] name = "petnames" -> handlePetnames(s, e)
    [] name = "relays2" -> profileHandler(s, e, "relays", relays2(e, s.profile))
    [] name = "relays3" -> profileHandler(s, e, "relays", relays3(e, s.profile))
    [] name = "mutes10000" -> profileHandler(s, e, "mutes", mutes10000(e, s.profile))
    [] name = "relays10001" -> profileHandler(s, e, "relays", relays10001(e, s.profile))
    [] name = "relays10002" -> profileHandler(s, e, "relays", relays10002(e, s.profile))
    [] name = "room40" -> handleRoom40(s, e)
    [] name = "room41" -> handleRoom41(s, e)
    [] name = "routes2" -> handleRoutes2(s, e)
    [] name = "routes3" -> handleRoutes3(s, e)
    [] name = "routes10002" -> handleRoutes10002(s, e)

\* for (const handler of handlers[event.kind] || []) handler(event);
\* an exception leaves the loop
RECURSIVE runHandlers(_, _, _)
runHandlers(s, e, hs) ==
  IF hs = <<>> \/ s.threw THEN s
  ELSE runHandlers(callHandler(hs[1], [s EXCEPT !.trace = Append(@, <<e.id, hs[1]>>)], e),
                   e, Tail(hs))

\* the body of the loop over the events of a chunk
dispatch(s, e) ==
  runHandlers([s EXCEPT !.events = Append(@, e),
                        !.userEvents = IF e.pubkey = UserPubkey THEN @ \cup {e} ELSE @],
              e, handlersOf(e.kind))

\* for (const event of chunks[i]): an exception ends the run
RECURSIVE runChunk(_, _)
runChunk(s, events) ==
  IF events = <<>> \/ s.threw THEN s
  ELSE runChunk(dispatch(s, events[1]), Tail(events))

Null == [null |-> TRUE]

\* ensurePlural(events).filter(identity)
nonNull(events) == SelectSeq(events, LAMBDA e : e # Null)

\* hurdak chunk(n, list): the first chunk and the rest
firstChunk(events) == SubSeq(events, 1, IF Len(events) < ChunkSize THEN Len(events) ELSE ChunkSize)

\* processEvents up to its first await (a batch of at most ChunkSize events
\* is one chunk, and the run ends there)
processEvents(s, batch) == runChunk(s, firstChunk(nonNull(batch)))

----------------------------------------------------------------------------
(* Verification callbacks *)

\* what nip05.queryProfile(as) may settle with, for a lookup p
\* what nip05.queryProfile(as) may settle with: a rejection, null, or the pubkey
\* and the relays the domain's JSON document names for it; relays is whatever
\* the document holds there, a list of urls or, malformed, a string
Nip05Results(p) ==
  { [t |-> "reject"],
    [t |-> "null"],
    [t |-> "profile", pubkey |-> p.pubkey, relays |-> [list |-> <<>>]],
    [t |-> "profile", pubkey |-> p.pubkey,
     relays |-> [list |-> <<"wss://relay.example/", "not-a-url">>]],
    [t |-> "profile", pubkey |-> p.pubkey, relays |-> [str |-> "wss://relay.example"]],
    [t |-> "profile", pubkey |-> IF p.pubkey = UserPubkey THEN OtherPubkey ELSE UserPubkey,
     relays |-> [list |-> <<"wss://other.example">>]] }

\* result.relays?.length > 0
relaysLength(rs) == IF "list" \in DOMAIN rs THEN Len(rs.list) ELSE 1

RECURSIVE bulkPatch(_, _)
bulkPatch(t, urls) ==
  IF urls = <<>> THEN t
  ELSE bulkPatch(TablePatch(t, normalizeRelayUrl(urls[1]),
                            [url |-> normalizeRelayUrl(urls[1])]), Tail(urls))

RECURSIVE nip05Routes(_, _, _)
nip05Routes(s, pubkey, urls) ==
  IF urls = <<>> THEN s
  ELSE nip05Routes(
         addRoute(addRoute(s, pubkey, urls[1], "nip05", "write", now),
                  pubkey, urls[1], "nip05", "read", now),
         pubkey, Tail(urls))

\* result?.pubkey === pubkey
nip05Matches(result, pubkey) == result.t = "profile" /\ result.pubkey = pubkey

\* lines 65-74: result.relays.filter is not a function when relays is a string;
\* noop handles a rejection of queryProfile only, not what this callback throws
nip05Relays(s, pubkey, rs) ==
  IF relaysLength(rs) > 0
    THEN IF "list" \notin DOMAIN rs THEN Raise(s)
         ELSE nip05Routes([s EXCEPT !.relays = bulkPatch(@, SelectSeq(rs.list, isRelay))],
                          pubkey, SelectSeq(rs.list, isRelay))
    ELSE s

\* the callbacks of verifyNip05: then(result => ...), and noop on rejection
nip05Resolved(s, p, result) ==
  IF ~nip05Matches(result, p.pubkey) THEN s
  ELSE nip05Relays(updatePerson(s, p.pubkey, [verified_as |-> p.arg]), p.pubkey, result.relays)

\* what the fetch of the lnurl metadata may give: no response or no JSON, or an object
ZapperResponses ==
  { [t |-> "fail"],
    [t |-> "json", val |-> [allowsNostr |-> JBool(TRUE), nostrPubkey |-> JStr("zp"),
                            callback |-> JStr("cb"), tag |-> JStr("payRequest")]],
    [t |-> "json", val |-> [nostrPubkey |-> JStr("zp"), callback |-> JStr("cb")]],
    [t |-> "json", val |-> [allowsNostr |-> JBool(TRUE), nostrPubkey |-> JStr("")]],
    [t |-> "json", val |-> [allowsNostr |-> JStr("false"), nostrPubkey |-> JStr("zp"),
                            callback |-> JStr("cb")]] }

zapperKeys == {"callback", "maxSendable", "minSendable", "nostrPubkey"}

\* zapper?.allowsNostr && zapper?.nostrPubkey
zapperAccepted(response) ==
  /\ response.t = "json"
  /\ Truthy(Prop(response.val, "allowsNostr"))
  /\ Truthy(Prop(response.val, "nostrPubkey"))

\* verifyZapper after its awaits
zapperResolved(s, p, response) ==
  LET lnurl == hexToBech32(p.arg)
  IN IF zapperAccepted(response)
       THEN updatePerson(s, p.pubkey,
              [lnurl |-> lnurl, zapper |-> Pick(zapperKeys, response.val)])
       ELSE s

----------------------------------------------------------------------------
(* The events the network may deliver *)

Ev(id, pubkey, kind, created_at, content, tags) ==
  [id |-> id, pubkey |-> pubkey, kind |-> kind, created_at |-> created_at,
   content |-> content, tags |-> tags]

\* an event whose tags field is missing
EvNoTags(id, pubkey, kind, created_at, content) ==
  [id |-> id, pubkey |-> pubkey, kind |-> kind, created_at |-> created_at,
   content |-> content]

E_name == Ev("e_name", UserPubkey, 0, T1, Json_name, <<>>)
E_about == Ev("e_about", UserPubkey, 0, T2, Json_about, <<>>)
E_nick == Ev("e_nick", UserPubkey, 0, T2, Json_nick, <<>>)
E_badlud == Ev("e_badlud", UserPubkey, 0, T2, Json_badlud, <<>>)
E_contacts == Ev("e_contacts", UserPubkey, 3, T1, Json_relays, << <<"p", OtherPubkey>> >>)
E_nocontacts == Ev("e_nocontacts", UserPubkey, 3, T2, "", <<>>)
E_notags == EvNoTags("e_notags", UserPubkey, 3, T1, Json_relays)
E_mutes == Ev("e_mutes", UserPubkey, 10000, T1, "", << <<"p", OtherPubkey>> >>)
E_relaylist == Ev("e_relaylist", UserPubkey, 10002, T2, "",
                  << <<"r", "wss://relay.example/", "read">>, <<"r", "wss://other.example">> >>)
E_room == Ev("room1", UserPubkey, 40, T1, Json_room, <<>>)
E_rename == Ev("e_rename", OtherPubkey, 41, T2, Json_rename, << <<"e", "room1">> >>)

Universe ==
  {E_name, E_about, E_nick, E_badlud, E_contacts, E_nocontacts, E_notags, E_mutes,
   E_relaylist, E_room, E_rename}

\* the batches a caller may pass: events and gaps, in any order
Batches == UNION {[1..n -> Universe \cup {Null}] : n \in 1..MaxEvents}

----------------------------------------------------------------------------
(* The state machine *)

Init ==
  /\ people = EmptyStore.people
  /\ profile = EmptyStore.profile
  /\ rooms = EmptyStore.rooms
  /\ routes = EmptyStore.routes
  /\ relays = EmptyStore.relays
  /\ userEvents = EmptyStore.userEvents
  /\ pending = EmptyStore.pending
  /\ evidence = EmptyStore.evidence
  /\ now = Now0
  /\ handled = {}
  /\ last = [op |-> "init"]
  /\ used = 0
  /\ ticks = 0
  /\ calls = EmptyObj

\* the tables and the lookups in flight become those of the store s
Becomes(s) ==
  /\ people' = s.people
  /\ profile' = s.profile
  /\ rooms' = s.rooms
  /\ routes' = s.routes
  /\ relays' = s.relays
  /\ userEvents' = s.userEvents
  /\ pending' = s.pending
  /\ evidence' = s.evidence

\* processEvents(batch) has run and left the store s
Ran(s, batch, again) ==
  /\ Becomes(s)
  /\ handled' = handled \cup Range(s.trace)
  /\ last' = [op |-> "processEvents", batch |-> batch, events |-> s.events,
              trace |-> s.trace, launched |-> s.launched, threw |-> s.threw,
              again |-> again]
  /\ UNCHANGED <<now, ticks, calls>>

ProcessEvents(batch, again) == Ran(processEvents(Store, batch), batch, again)

\* a caller passes a new batch
Submit(batch) ==
  /\ used + Len(batch) <= MaxEvents
  /\ used' = used + Len(batch)
  /\ ProcessEvents(batch, FALSE)

\* the batch passed last is passed again, straight after
Resubmit ==
  /\ last.op = "processEvents"
  /\ ~last.again
  /\ used' = used
  /\ ProcessEvents(last.batch, TRUE)

\* a domain-identity lookup settles
Settled(s, op, p, outcome) ==
  /\ Becomes(s)
  /\ last' = [op |-> op, lookup |-> p, outcome |-> outcome, threw |-> s.threw]
  /\ UNCHANGED <<now, handled, used, ticks, calls>>

Nip05Callback(p, result) ==
  /\ p.lookup = "nip05"
  /\ Settled(nip05Resolved([Store EXCEPT !.pending = @ (-) SetToBag({p})], p, result),
             "nip05", p, result)

\* a payment-endpoint lookup settles
ZapperCallback(p, response) ==
  /\ p.lookup = "zapper"
  /\ Settled(zapperResolved([Store EXCEPT !.pending = @ (-) SetToBag({p})], p, response),
             "zapper", p, response)

\* time passes
Tick ==
  /\ ticks < MaxTicks
  /\ now' = now + TickStep
  /\ ticks' = ticks + 1
  /\ last' = [op |-> "tick"]
  /\ UNCHANGED <<people, profile, rooms, routes, relays, userEvents, pending,
                 evidence, handled, used, calls>>

Next ==
  \/ \E batch \in Batches : Submit(batch)
  \/ Resubmit
  \/ \E p \in BagToSet(pending) : \E result \in Nip05Results(p) : Nip05Callback(p, result)
  \/ \E p \in BagToSet(pending) : \E response \in ZapperResponses : ZapperCallback(p, response)

Spec == Init /\ [][Next]_vars

----------------------------------------------------------------------------
(* addRoute on its own: any caller, any arguments, while time passes *)

RoutePubkeys == {UserPubkey}
RouteUrls == {"wss://relay.example", "wss://relay.example/", "not-a-url"}
RouteTypes == {"kind:10002", "kind:3", "kind:1"}
RouteModes == {"read", "write"}
RouteTimes == {T0, T1, T2}

AddRoute(pubkey, rawUrl, type, mode, created_at) ==
  /\ used < MaxRouteCalls
  /\ used' = used + 1
  /\ Becomes(addRoute(Store, pubkey, rawUrl, type, mode, created_at))
  /\ last' = [op |-> "addRoute", pubkey |-> pubkey, rawUrl |-> rawUrl, type |-> type,
              mode |-> mode, created_at |-> created_at,
              score |-> evidenceScore(type, created_at)]
  /\ UNCHANGED <<now, handled, ticks, calls>>

NextRoute ==
  \/ \E pubkey \in RoutePubkeys, rawUrl \in RouteUrls, type \in RouteTypes,
        mode \in RouteModes, created_at \in RouteTimes :
       AddRoute(pubkey, rawUrl, type, mode, created_at)
  \/ Tick

SpecRoute == Init /\ [][NextRoute]_vars

----------------------------------------------------------------------------
(* Lookups: profile events with domain identifiers and a payment address,  *)
(* and the callbacks of their lookups.                                     *)

E_alias == Ev("e_alias", UserPubkey, 0, T1, Json_alias, <<>>)

VerifyUniverse == {E_alias, E_about, E_name, E_contacts}

VerifyBatches == UNION {[1..n -> VerifyUniverse] : n \in 1..MaxEvents}

NextVerify ==
  \/ \E batch \in VerifyBatches : Submit(batch)
  \/ \E p \in BagToSet(pending) : \E result \in Nip05Results(p) : Nip05Callback(p, result)
  \/ \E p \in BagToSet(pending) : \E response \in ZapperResponses : ZapperCallback(p, response)

SpecVerify == Init /\ [][NextVerify]_vars

----------------------------------------------------------------------------
(* Rooms: a creation and metadata updates of one room.                     *)

E_oldname == Ev("e_oldname", UserPubkey, 41, T0, Json_oldname, << <<"e", "room1">> >>)
E_noname == Ev("e_noname", OtherPubkey, 41, T2, Json_noname, << <<"e", "room1">> >>)
E_noref == Ev("e_noref", OtherPubkey, 41, T2, Json_rename, << <<"p", OtherPubkey>> >>)

RoomUniverse == {E_room, E_rename, E_oldname, E_noname, E_noref}

RoomBatches == UNION {[1..n -> RoomUniverse] : n \in 1..MaxEvents}

NextRooms ==
  \/ \E batch \in RoomBatches : Submit(batch)
  \/ Resubmit

SpecRooms == Init /\ [][NextRooms]_vars

----------------------------------------------------------------------------
(* Relay lists: events of the four kinds that set the user's relays, an    *)
(* older and a newer one of each, and a list of another publisher.         *)

E_relay2_old == Ev("e_relay2_old", UserPubkey, 2, T1, "wss://relay.example/", <<>>)
E_relay2_new == Ev("e_relay2_new", UserPubkey, 2, T2, "wss://other.example", <<>>)
E_contacts_new == Ev("e_contacts_new", UserPubkey, 3, T2, Json_relays_b, <<>>)
E_list1_old == Ev("e_list1_old", UserPubkey, 10001, T1, "",
                  << <<"wss://relay.example", "", "!">> >>)
E_list1_new == Ev("e_list1_new", UserPubkey, 10001, T2, "", << <<"wss://other.example">> >>)
E_relaylist_old == Ev("e_relaylist_old", UserPubkey, 10002, T1, "",
                      << <<"r", "wss://relay.example/", "read">>,
                         <<"r", "wss://relay.example", "read">>,
                         <<"r", "wss://other.example", "banana">> >>)
E_otherlist == Ev("e_otherlist", OtherPubkey, 10002, T2, "", << <<"r", "wss://other.example">> >>)

RelayUniverse ==
  {E_relay2_old, E_relay2_new, E_contacts, E_contacts_new, E_list1_old, E_list1_new,
   E_relaylist_old, E_relaylist, E_otherlist}

RelayBatches == UNION {[1..n -> RelayUniverse] : n \in 1..MaxEvents}

NextRelays ==
  \/ \E batch \in RelayBatches : Submit(batch)
  \/ Resubmit

SpecRelays == Init /\ [][NextRelays]_vars

----------------------------------------------------------------------------
(* Long batches: processEvents chunk by chunk, asleep between two chunks   *)
(* while other calls and callbacks run.                                    *)

MaxCalls == 2

\* every call yields after every chunk, the last one too
yieldsAfterEvery(i, n) == TRUE

\* if (i < chunks.length - 1), for the i-th chunk of n counted from 1
yieldsAfter(i, n) == i < n

\* hurdak chunk(n, list)
chunk(n, list) ==
  [k \in 1..((Len(list) + n - 1) \div n) |->
     SubSeq(list, (k - 1) * n + 1, IF k * n < Len(list) THEN k * n ELSE Len(list))]

\* the body of the outer loop for chunk i has run and left the store s: the
\* call is over when a handler threw or the loop ends, asleep otherwise
ChunkRan(s, id, chunks, i) ==
  /\ Becomes(s)
  /\ handled' = handled \cup Range(s.trace)
  /\ calls' = IF ~s.threw /\ yieldsAfter(i, Len(chunks))
               THEN TablePut(calls, id, [chunks |-> chunks, i |-> i])
               ELSE [c \in DOMAIN calls \ {id} |-> calls[c]]
  /\ last' = [op |-> "chunk", call |-> id, chunks |-> chunks, i |-> i,
              count |-> Len(s.events), threw |-> s.threw,
              asleep |-> (~s.threw /\ yieldsAfter(i, Len(chunks)))]
  /\ UNCHANGED <<now, ticks>>

\* processEvents(batch) is called and runs up to its first await or its end
Call(batch) ==
  /\ used < MaxCalls
  /\ used' = used + 1
  /\ IF chunk(ChunkSize, nonNull(batch)) = <<>>
       THEN /\ last' = [op |-> "call", call |-> used + 1]
            /\ UNCHANGED <<people, profile, rooms, routes, relays, userEvents, pending,
                           evidence, now, handled, ticks, calls>>
       ELSE ChunkRan(runChunk(Store, chunk(ChunkSize, nonNull(batch))[1]), used + 1,
                     chunk(ChunkSize, nonNull(batch)), 1)

\* sleep(30) is over: the loop goes on with the next chunk, or ends
Wake(id) ==
  /\ used' = used
  /\ IF calls[id].i + 1 > Len(calls[id].chunks)
       THEN /\ calls' = [c \in DOMAIN calls \ {id} |-> calls[c]]
            /\ last' = [op |-> "return", call |-> id]
            /\ UNCHANGED <<people, profile, rooms, routes, relays, userEvents, pending,
                           evidence, now, handled, ticks>>
       ELSE ChunkRan(runChunk(Store, calls[id].chunks[calls[id].i + 1]), id,
                     calls[id].chunks, calls[id].i + 1)

Fill(n, e) == [i \in 1..n |-> e]

\* batches: a gap alone, a full chunk and a gap, two chunks with a lookup,
\* three chunks, and two chunks with an event whose handler throws, in the
\* first chunk and in the second
ChunkBatches ==
  { <<Null>>,
    Fill(ChunkSize, E_nick) \o <<Null>>,
    <<E_about>> \o Fill(ChunkSize, E_room),
    Fill(2 * ChunkSize + 1, E_contacts),
    [i \in 1..(ChunkSize + 2) |-> IF i = 2 THEN E_notags ELSE E_nick],
    [i \in 1..(ChunkSize + 2) |-> IF i = ChunkSize + 2 THEN E_notags ELSE E_rename] }

NextChunk ==
  \/ \E batch \in ChunkBatches : Call(batch)
  \/ \E id \in DOMAIN calls : Wake(id)
  \/ \E p \in BagToSet(pending) : \E result \in Nip05Results(p) : Nip05Callback(p, result)

SpecChunk == Init /\ [][NextChunk]_vars

----------------------------------------------------------------------------
(* Properties *)

AllEvents == Universe \cup VerifyUniverse \cup RoomUniverse \cup RelayUniverse

ById(id) == CHOOSE e \in AllEvents : e.id = id

Pubkeys == {UserPubkey, OtherPubkey}

None == 0 - 1

\* the greatest element of a set of timestamps, None for the empty set
Greatest(S) == IF S = {} THEN None ELSE CHOOSE m \in S : \A x \in S : x <= m

Stored(row, field) == IF field \in DOMAIN row THEN row[field] ELSE None

IsProcessed == last.op = "processEvents"

\* the lud16 / lud06 address of a parsed kind 0 content
AddressOf(kind0) == OrElse(Prop(kind0, "lud16"), Prop(kind0, "lud06"))

\* the handler named computes a value to store from event e alone (a list or
\* an object, empty or not): its content parses, its tags are there, nothing
\* it calls throws
ComputesValue(e, name) ==
  CASE name = "kind0" ->
         /\ JSONparse(e.content).t = "obj"
         /\ LET address == AddressOf(ObjValue(JSONparse(e.content).entries))
            IN Truthy(address) => IsString(address)
    [] name = "petnames" -> "tags" \in DOMAIN e
    [] name = "relays3" -> e.pubkey = UserPubkey /\ JSONparse(e.content).t = "obj"
    [] name \in {"mutes10000", "relays10001"} ->
         e.pubkey = UserPubkey /\ "tags" \in DOMAIN e
    [] name \in {"relays2", "relays10002"} -> e.pubkey = UserPubkey
    [] OTHER -> FALSE

\* the value is not empty: some key, some "p" tag, some relay, some tag
ComputesNonEmpty(e, name) ==
  /\ ComputesValue(e, name)
  /\ CASE name = "kind0" -> JSONparse(e.content).entries # <<>>
       [] name = "petnames" -> \E i \in 1..Len(e.tags) : e.tags[i][1] = "p"
       [] name = "relays3" -> relays3(e, profile).v # <<>>
       [] name = "relays10002" -> relays10002(e, profile).v # <<>>
       [] name \in {"mutes10000", "relays10001"} -> e.tags # <<>>
       [] OTHER -> TRUE

GroupHandlers(group) ==
  CASE group = "kind0" -> {"kind0"}
    [] group = "petnames" -> {"petnames"}
    [] group = "relays" -> {"relays2", "relays3", "relays10001", "relays10002"}
    [] group = "mutes" -> {"mutes10000"}

\* created_at of the events of pubkey handled for a field-group that satisfy Counts
TimesOf(group, pubkey, Counts(_, _)) ==
  {ById(h[1]).created_at : h \in {x \in handled :
      /\ x[2] \in GroupHandlers(group)
      /\ ById(x[1]).pubkey = pubkey
      /\ Counts(ById(x[1]), x[2])}}

UpdatedAtIs(Counts(_, _)) ==
  /\ \A pubkey \in Pubkeys : \A group \in {"kind0", "petnames"} :
       Stored(TableGet(people, pubkey), group \o "_updated_at")
         = Greatest(TimesOf(group, pubkey, Counts))
  /\ \A group \in {"relays", "mutes"} :
       Stored(profile, group \o "_updated_at")
         = Greatest(TimesOf(group, profile.pubkey, Counts))

----------------------------------------------------------------------------
(* Order of a batch, stale events, a batch passed twice.                   *)

\* a row without the engine-local write time
WithoutWriteTime(row) == [k \in DOMAIN row \ {"updated_at"} |-> row[k]]

\* the Identity, UserProfile and Room state of a store
MergedState(s) ==
  [people |-> [pk \in DOMAIN s.people |-> WithoutWriteTime(s.people[pk])],
   profile |-> s.profile,
   rooms |-> s.rooms]

MergedNow == MergedState(Store)

\* the batch in another order
Reordered(batch, f) == [i \in 1..Len(batch) |-> batch[f[i]]]

\* C2 (as stated, for profile events): whenever processEvents handles a batch
\* of kind 0 events whose contents the handler can use, handling the same
\* events in any other order from the same store ends in the same Identity,
\* UserProfile and Room state (field values and *_updated_at, Identity.updated_at
\* left aside).
C2_OrderIndependent ==
  [][(/\ last'.op = "processEvents"
      /\ \A i \in 1..Len(last'.batch) :
           /\ last'.batch[i] # Null
           /\ last'.batch[i].kind = 0
           /\ ComputesValue(last'.batch[i], "kind0"))
     => \A f \in Permutations(1..Len(last'.batch)) :
          MergedState(processEvents(Store, Reordered(last'.batch, f))) = MergedNow']_vars

\* the kind 0 state of a pubkey and the lookups in flight
Kind0State(s, pubkey) ==
  [row |-> Pick({"kind0", "kind0_updated_at"}, TableGet(s.people, pubkey)),
   pending |-> s.pending]

\* C3: when the Identity of a pubkey has kind0_updated_at = T, handling a kind 0
\* event of that pubkey with created_at < T leaves kind0 and kind0_updated_at
\* unchanged and launches no lookup; a kind 0 event with created_at = T whose
\* content the handler can use is accepted: its keys are merged onto kind0 and
\* kind0_updated_at stays T.  Checked for every event of every batch handled,
\* against the store the events before it in the batch leave.
C3_StaleKind0Rejected ==
  [][last'.op = "processEvents" =>
       \A i \in 1..Len(last'.events) :
         LET e == last'.events[i]
             T == Stored(TableGet(runChunk(Store, SubSeq(last'.events, 1, i - 1)).people, e.pubkey),
                         "kind0_updated_at")
         IN e.kind = 0 /\ T # None =>
              /\ e.created_at < T =>
                   Kind0State(runChunk(Store, SubSeq(last'.events, 1, i)), e.pubkey)
                     = Kind0State(runChunk(Store, SubSeq(last'.events, 1, i - 1)), e.pubkey)
              /\ e.created_at = T /\ ComputesValue(e, "kind0") =>
                   Kind0State(runChunk(Store, SubSeq(last'.events, 1, i)), e.pubkey).row
                     = [kind0 |-> Spread(TableGet(runChunk(Store, SubSeq(last'.events, 1, i - 1)).people,
                                                  e.pubkey).kind0,
                                         ObjValue(JSONparse(e.content).entries)),
                        kind0_updated_at |-> T]]_vars

\* a profile event was handled after a newer one of the same pubkey: no lookup
\* for its lud16 address is in flight and its name is not stored
C3_Witness ==
  /\ IsProcessed
  /\ last.events = <<E_about, E_name>>
  /\ people[UserPubkey].kind0_updated_at = T2
  /\ "name" \notin DOMAIN people[UserPubkey].kind0
  /\ \A p \in BagToSet(pending) : p.lookup = "nip05"

IdentityFields == {"kind0", "kind0_updated_at", "petnames", "petnames_updated_at"}

\* the Identity fields and the Room rows
IdentityAndRooms ==
  [people |-> [pk \in DOMAIN people |-> Pick(IdentityFields, people[pk])],
   rooms |-> rooms]

\* C4: passing processEvents the batch it was passed last, straight after,
\* leaves kind0, kind0_updated_at, petnames and petnames_updated_at of every
\* Identity and every Room row as the first pass left them.
C4_SecondPassChangesNothing ==
  [][last'.op = "processEvents" /\ last'.again => IdentityAndRooms' = IdentityAndRooms]_vars

\* a batch of two profile events and then the same batch again
C4_Witness ==
  /\ IsProcessed
  /\ last.again
  /\ last.events = <<E_contacts, E_nick>>
  /\ people[UserPubkey].petnames = <<E_contacts.tags[1]>>
  /\ people[UserPubkey].kind0.name = JStr("c")

----------------------------------------------------------------------------
(* Routes.                                                                 *)

WeightedTypes == {"nip05", "kind:10002", "kind:3", "kind:2"}

\* the route id of the addRoute call made last
LastRouteId == RouteId(last.pubkey, normalizeRelayUrl(last.rawUrl), last.mode)

\* C5: every Route row has count equal to the number of observations of its
\* route id whose computed score was > 0 and score equal to the arithmetic
\* mean of those scores (in exact arithmetic), and every route id with such an
\* observation has a row; so an observation whose score is not positive
\* changes neither count nor score.
C5_ScoreIsMeanOfPositive ==
  /\ DOMAIN routes = DOMAIN evidence
  /\ \A id \in DOMAIN routes :
       /\ routes[id].count = evidence[id].n
       /\ routes[id].count > 0
       /\ routes[id].score = RDiv(evidence[id].sum, RInt(evidence[id].n))

\* three observations of one route were folded, of two different scores
C5_Witness ==
  /\ last.op = "addRoute"
  /\ RPos(last.score)
  /\ LastRouteId \in DOMAIN routes
  /\ routes[LastRouteId].count = 3
  /\ routes[LastRouteId].score # last.score

\* C6: an addRoute call for an observation as old as the 30-day decay window or
\* older, or of an evidence type without a weight, leaves the Route table as
\* it was: no row more, and every row with its count, score, types, last_seen.
C6_NoScoreNoChange ==
  [][(/\ last'.op = "addRoute"
      /\ \/ now - last'.created_at >= DecayWindow
         \/ last'.type \notin WeightedTypes)
     => routes' = routes]_vars

\* an observation exactly 30 days old came for a route that has a row
C6_Witness ==
  /\ last.op = "addRoute"
  /\ now - last.created_at = DecayWindow
  /\ last.type \in WeightedTypes
  /\ isShareableRelay(last.rawUrl)
  /\ LastRouteId \in DOMAIN routes
  /\ routes[LastRouteId].count = 1

\* C7: an addRoute call whose rawUrl is not a valid shareable endpoint leaves
\* the RelayEndpoint table and the Route table as they were, whatever its
\* evidence type, mode and timestamp.
C7_BadUrlNoChange ==
  [][last'.op = "addRoute" /\ ~isShareableRelay(last'.rawUrl)
     => routes' = routes /\ relays' = relays]_vars

\* a fresh observation of a weighted type came with a rawUrl that is no endpoint
C7_Witness ==
  /\ last.op = "addRoute"
  /\ ~isShareableRelay(last.rawUrl)
  /\ RPos(last.score)
  /\ "not-a-url" \notin DOMAIN relays
  /\ RouteId(last.pubkey, last.rawUrl, last.mode) \notin DOMAIN routes

----------------------------------------------------------------------------
(* Failures, handler order, lookups.                                       *)

\* the handler invocations for a list of events when none raises
RECURSIVE TraceOf(_)
TraceOf(events) ==
  IF events = <<>> THEN <<>>
  ELSE [i \in 1..Len(handlersOf(events[1].kind)) |->
          <<events[1].id, handlersOf(events[1].kind)[i]>>] \o TraceOf(Tail(events))

\* C8 (as stated): when processEvents has run on a batch it has completed
\* without throwing and has handled every event of the batch, those after an
\* event whose handler raised included.
C8_LaterEventsHandled ==
  IsProcessed =>
    /\ ~last.threw
    /\ last.events = nonNull(last.batch)

\* C9 (as stated): when processEvents has run on a batch, the handler
\* invocations it made are, for each non-null event of the batch in batch
\* order and once each, the handlers registered for the event's kind in
\* registration order, all of them before the first handler of the next event.
C9_HandlersInOrder ==
  IsProcessed => last.trace = TraceOf(nonNull(last.batch))

\* C10 (as stated): when processEvents has run on a batch, every kind 0 event
\* that launched a domain-identity or payment-endpoint lookup has its kind0
\* patch applied (the Identity's kind0_updated_at is at least its created_at
\* and holds its keys if it is the newest), and all events of the batch were
\* handled.
C10_LookupNeverDropsPatch ==
  IsProcessed =>
    /\ last.events = nonNull(last.batch)
    /\ \A i \in 1..Len(last.launched) :
         LET e == ById(last.trace[last.launched[i].at][1])
         IN Stored(TableGet(people, e.pubkey), "kind0_updated_at") >= e.created_at

----------------------------------------------------------------------------
(* Lookups and event handling on one Identity.                             *)

VerificationFields == {"verified_as", "lnurl", "zapper"}

\* the fields of a set that a table gives a key, none when it has no row for it
FieldsOf(fields, t, pk) == Pick(fields, TableGet(t, pk))

\* C11: in every interleaving of lookup callbacks with the handling of later
\* batches, no write to an Identity undoes another: handling events leaves
\* verified_as, lnurl and zapper of every Identity as they were, a
\* domain-identity callback leaves kind0, petnames, their timestamps, lnurl and
\* zapper as they were and, when its result matches, sets verified_as, and a
\* payment-endpoint callback leaves kind0, petnames, their timestamps and
\* verified_as as they were and, when accepted, sets lnurl and zapper.
C11_NoLostUpdate ==
  [][\A pk \in Pubkeys :
       /\ last'.op = "processEvents" =>
            FieldsOf(VerificationFields, people', pk) = FieldsOf(VerificationFields, people, pk)
       /\ last'.op = "nip05" =>
            /\ FieldsOf(IdentityFields \cup {"lnurl", "zapper"}, people', pk)
                 = FieldsOf(IdentityFields \cup {"lnurl", "zapper"}, people, pk)
            /\ nip05Matches(last'.outcome, last'.lookup.pubkey) /\ pk = last'.lookup.pubkey
                 => people'[pk].verified_as = last'.lookup.arg
       /\ last'.op = "zapper" =>
            /\ FieldsOf(IdentityFields \cup {"verified_as"}, people', pk)
                 = FieldsOf(IdentityFields \cup {"verified_as"}, people, pk)
            /\ zapperAccepted(last'.outcome) /\ pk = last'.lookup.pubkey
                 => {"lnurl", "zapper"} \subseteq DOMAIN people'[pk]]_vars

\* a domain-identity callback has landed on an Identity that a contact list
\* and a profile event wrote: all three writes are there
C11_Witness ==
  /\ last.op = "nip05"
  /\ UserPubkey \in DOMAIN people
  /\ {"verified_as", "kind0", "petnames"} \subseteq DOMAIN people[UserPubkey]
  /\ people[UserPubkey].verified_as = "b@x.example"
  /\ people[UserPubkey].kind0 = ObjValue(JSONparse(Json_about).entries)
  /\ people[UserPubkey].petnames = E_contacts.tags

\* C13 (as stated): a domain-identity lookup that is rejected, gives nothing,
\* gives another pubkey than the triggering event's, or gives a malformed
\* result (relays that is no list) changes no Identity, Route or RelayEndpoint
\* row and surfaces no error.
C13_FailedLookupIsSilent ==
  [][(/\ last'.op = "nip05"
      /\ \/ ~nip05Matches(last'.outcome, last'.lookup.pubkey)
         \/ "list" \notin DOMAIN last'.outcome.relays)
     => /\ people' = people
        /\ routes' = routes
        /\ relays' = relays
        /\ ~last'.threw]_vars

\* C14 (as stated): a payment-endpoint lookup whose response does not declare
\* allowsNostr: true with a non-empty nostrPubkey, or that fails, leaves lnurl
\* and zapper of every Identity as they were.
C14_ZapperGated ==
  [][(/\ last'.op = "zapper"
      /\ ~(/\ last'.outcome.t = "json"
           /\ Prop(last'.outcome.val, "allowsNostr") = JBool(TRUE)
           /\ Truthy(Prop(last'.outcome.val, "nostrPubkey"))))
     => \A pk \in Pubkeys :
          FieldsOf({"lnurl", "zapper"}, people', pk) = FieldsOf({"lnurl", "zapper"}, people, pk)]_vars

\* C19 (as stated): when the last of the domain-identity lookups of a pubkey
\* settles with a match, after a lookup for another identifier of the same
\* pubkey has matched, verified_as is the nip05 of the profile event with the
\* greater created_at, which is the nip05 that kind0 holds.
C19_NewestIdentifierWins ==
  [][(/\ last'.op = "nip05"
      /\ nip05Matches(last'.outcome, last'.lookup.pubkey)
      /\ ~last'.threw
      /\ \A p \in BagToSet(pending') : p.lookup # "nip05"
      /\ "verified_as" \in DOMAIN TableGet(people, last'.lookup.pubkey)
      /\ people[last'.lookup.pubkey].verified_as # last'.lookup.arg)
     => people'[last'.lookup.pubkey].verified_as
          = people'[last'.lookup.pubkey].kind0.nip05.str]_vars

----------------------------------------------------------------------------
(* Rooms.                                                                  *)

\* the room an event is about: its own id for kind 40, its first "e" tag for kind 41
RoomTarget(e) ==
  IF e.kind = 40 THEN e.id
  ELSE IF tagsOfType(e, "e") = <<>> THEN "" ELSE tagUrl(tagsOfType(e, "e")[1])

RoomHandlers == {"room40", "room41"}

\* C15 (as stated): across every step the updated_at of a Room does not
\* decrease; the metadata of every Room (its whitelisted fields) is that of an
\* event handled for its id whose created_at is the Room's updated_at, the
\* highest accepted for the id; and a batch of events without a whitelisted
\* name or without an "e" reference changes no Room row.
C15_RoomLastWriteWins ==
  [][/\ \A id \in DOMAIN rooms :
          id \in DOMAIN rooms' /\ rooms'[id].updated_at >= rooms[id].updated_at
     /\ \A id \in DOMAIN rooms' :
          \E h \in handled' :
            /\ h[2] \in RoomHandlers
            /\ RoomTarget(ById(h[1])) = id
            /\ ById(h[1]).created_at = rooms'[id].updated_at
            /\ Pick(roomAttrs, rooms'[id]) = roomContent(ById(h[1]))
     /\ (/\ last'.op = "processEvents"
         /\ \A i \in 1..Len(last'.events) :
              \/ ~Truthy(Prop(roomContent(last'.events[i]), "name"))
              \/ RoomTarget(last'.events[i]) = "")
        => rooms' = rooms]_vars

\* C20 (as stated): once the kind 40 event of a room id has been handled and
\* the Room names its publisher, no step changes the Room's pubkey.
C20_RoomKeepsCreator ==
  [][\A id \in DOMAIN rooms :
       (/\ <<id, "room40">> \in handled
        /\ rooms[id].pubkey = ById(id).pubkey)
       => rooms'[id].pubkey = rooms[id].pubkey]_vars

----------------------------------------------------------------------------
(* Relay lists of the user and the routes of relay list events.            *)

RelayKinds == {2, 3, 10001, 10002}

\* the relays field-group of a profile
RelaysOf(p) == Pick({"relays", "relays_updated_at"}, p)

\* C16 (as stated): every Route row stored has mode read or write.
C16_RouteModes == \A id \in DOMAIN routes : routes[id].mode \in {"read", "write"}

\* the modes a relay list tag gives evidence for
TagModes(t) == IF tagMode(t) # "" THEN {tagMode(t)} ELSE {"read", "write"}

\* the number of addRoute calls a kind 10002 event makes for a route id
Refs(e, id) ==
  Cardinality({c \in (1..Len(e.tags)) \X UNION {TagModes(e.tags[i]) : i \in 1..Len(e.tags)} :
     /\ c[2] \in TagModes(e.tags[c[1]])
     /\ isShareableRelay(tagUrl(e.tags[c[1]]))
     /\ RouteId(e.pubkey, normalizeRelayUrl(tagUrl(e.tags[c[1]])), c[2]) = id})

CountOf(t, id) == IF id \in DOMAIN t THEN t[id].count ELSE 0

\* a kind 10002 event inside the decay window is delivered alone
Delivered10002 ==
  /\ last'.op = "processEvents"
  /\ Len(last'.events) = 1
  /\ last'.events[1].kind = 10002
  /\ now - last'.events[1].created_at < DecayWindow

\* C17 (as amended): every delivery of a kind 10002 event made within the decay
\* window increases the count of each Route by the number of the event's tags
\* that name it with a valid shareable url (a tag without mode names the read
\* and the write Route of its url); two deliveries increase it by twice that
\* number, the second delivery as much as the first.
C17_CountPerTagAndDelivery ==
  [][Delivered10002 =>
       \A id \in DOMAIN routes \cup DOMAIN routes' :
         CountOf(routes', id) = CountOf(routes, id) + Refs(last'.events[1], id)]_vars

\* C17 (as stated): every delivery increases the count of each Route the event
\* references by exactly one, so two deliveries increase it by exactly two.
C17_OnePerDelivery ==
  [][Delivered10002 =>
       \A id \in DOMAIN routes \cup DOMAIN routes' :
         CountOf(routes', id)
           = CountOf(routes, id) + (IF Refs(last'.events[1], id) > 0 THEN 1 ELSE 0)]_vars

\* a relay list with two tags for one read route was delivered twice to an
\* empty store: the route counts four, the route of the single tag would two
C17_Witness ==
  /\ IsProcessed
  /\ last.again
  /\ used = 1
  /\ last.events = <<E_relaylist_old>>
  /\ CountOf(routes, RouteId(UserPubkey, "wss://relay.example", "read")) = 4

\* C18: for every event of kind 2, 3, 10001 or 10002 handled, against the
\* profile the events before it in the batch leave: when its created_at is
\* lower than the stored relays_updated_at, or its publisher is not the local
\* user, relays and relays_updated_at stay as they were.
C18_RelaysOneGroup ==
  [][last'.op = "processEvents" =>
       \A i \in 1..Len(last'.events) :
         LET e == last'.events[i]
             T == Stored(runChunk(Store, SubSeq(last'.events, 1, i - 1)).profile,
                         "relays_updated_at")
         IN e.kind \in RelayKinds /\ (e.pubkey # UserPubkey \/ (T # None /\ e.created_at < T)) =>
              RelaysOf(runChunk(Store, SubSeq(last'.events, 1, i)).profile)
                = RelaysOf(runChunk(Store, SubSeq(last'.events, 1, i - 1)).profile)]_vars

\* a newer kind 2 event and then an older kind 10002 event in one batch: the
\* relay of the kind 2 event stays
C18_Witness ==
  /\ IsProcessed
  /\ last.events = <<E_relay2_new, E_relaylist_old>>
  /\ Stored(profile, "relays_updated_at") = T2
  /\ profile.relays = << [url |-> "wss://other.example"] >>

----------------------------------------------------------------------------
(* Chunks.                                                                 *)

\* C12: a processEvents call runs one whole chunk in every step it takes: all
\* the events of the chunk, each with all its handlers, unless a handler
\* throws and ends the call; every chunk but the last holds exactly 100 events;
\* the call goes to sleep once after every chunk it has finished except the
\* last and not otherwise.  So a call that other work can interleave with has
\* handled a whole number of chunks, at least one and not all.
C12_YieldsAtChunkBoundaries ==
  [][/\ last'.op = "chunk" =>
          /\ ~last'.threw => last'.count = Len(last'.chunks[last'.i])
          /\ last'.threw => last'.count <= Len(last'.chunks[last'.i])
          /\ last'.i < Len(last'.chunks) => Len(last'.chunks[last'.i]) = ChunkSize
          /\ Len(last'.chunks[last'.i]) \in 1..ChunkSize
          /\ last'.asleep <=> (~last'.threw /\ last'.i < Len(last'.chunks))
          /\ last'.asleep <=> last'.call \in DOMAIN calls'
     /\ \A id \in DOMAIN calls' :
          /\ calls'[id].i \in 1..(Len(calls'[id].chunks) - 1)
          /\ \A k \in 1..calls'[id].i : Len(calls'[id].chunks[k]) = ChunkSize
     /\ \A id \in DOMAIN calls :
          last'.op \in {"nip05", "call"} \/ (last'.op = "chunk" /\ last'.call # id)
            => id \in DOMAIN calls' /\ calls'[id] = calls[id]]_vars

\* a domain-identity callback ran while a call of three chunks was asleep
\* after its second chunk
C12_Witness ==
  /\ last.op = "nip05"
  /\ \E id \in DOMAIN calls : calls[id].i = 2 /\ Len(calls[id].chunks) = 3

====
